---- MODULE Spec2Model ----
(***************************************************************************)
(* A model of the go-duration crate: the Go-style duration parser          *)
(* (src/src/lib.rs, src/src/nom.rs), the formatter (Display) and the serde *)
(* adapter (src/src/serde.rs).                                             *)
(*                                                                         *)
(* The crate computes on u64, i64 and f64.  TLC's integers are 32 bits     *)
(* wide, so 64-bit integers are modelled exactly as naturals in base 2^15  *)
(* (little-endian sequences of limbs, <<>> being zero), with the code's    *)
(* saturating and checked operations applied at the 64-bit limits, and an  *)
(* f64 is modelled as mant * 2^exp with a 53-bit mantissa and IEEE-754     *)
(* round-to-nearest-even after every operation.                            *)
(*                                                                         *)
(* Intermediate values are passed on as operator arguments: an operator    *)
(* "XWith" continues "X" with a value X has computed, where the code binds *)
(* it with let.                                                            *)
(***************************************************************************)
EXTENDS Integers, Sequences, FiniteSets, TLC

(***************************************************************************)
(* Exact natural-number arithmetic.                                        *)
(***************************************************************************)
BASE == 2 ^ 15

LimbBits == 15 * (BASE \div BASE)

\* w, with v evaluated first.  TLC evaluates the arguments of an operator lazily
\* and on a small stack: a loop that never touched its accumulator would nest one
\* pending evaluation per iteration.  For the same reason the loops over digits
\* below split their range in halves instead of recursing once per digit.
Strict(v, w) == IF v = v THEN w ELSE w

Limb(a, i) == IF i <= Len(a) THEN a[i] ELSE 0

RECURSIVE Norm(_)
Norm(a) == IF a = <<>> THEN <<>>
           ELSE IF a[Len(a)] = 0 THEN Norm(SubSeq(a, 1, Len(a) - 1))
           ELSE a

RECURSIVE Big(_)
Big(n) == IF n = 0 THEN <<>> ELSE <<n % BASE>> \o Big(n \div BASE)

RECURSIVE CmpFrom(_, _, _)
CmpFrom(a, b, i) == IF i = 0 THEN 0
                    ELSE IF a[i] < b[i] THEN -1
                    ELSE IF a[i] > b[i] THEN 1
                    ELSE CmpFrom(a, b, i - 1)

Cmp(a, b) == IF Len(a) < Len(b) THEN -1
             ELSE IF Len(a) > Len(b) THEN 1
             ELSE CmpFrom(a, b, Len(a))

Le(a, b) == Cmp(a, b) <= 0

Lt(a, b) == Cmp(a, b) < 0

\* the limbs of a + b from limb i on, s being the sum at limb i with its carry
RECURSIVE AddC(_, _, _, _)
AddC(a, b, i, s) ==
    IF i > Len(a) /\ i > Len(b) THEN (IF s = 0 THEN <<>> ELSE <<s>>)
    ELSE <<s % BASE>> \o AddC(a, b, i + 1, Limb(a, i + 1) + Limb(b, i + 1) + s \div BASE)

Add(a, b) == AddC(a, b, 1, Limb(a, 1) + Limb(b, 1))

\* the limbs of a - b from limb i on, c being the borrow into limb i
RECURSIVE SubC(_, _, _, _)
SubC(a, b, i, c) ==
    IF i > Len(a) THEN <<>>
    ELSE IF a[i] - Limb(b, i) - c < 0
         THEN <<a[i] - Limb(b, i) - c + BASE>> \o SubC(a, b, i + 1, 1)
    ELSE <<a[i] - Limb(b, i) - c>> \o SubC(a, b, i + 1, 0)

\* a - b for a >= b
Sub(a, b) == Norm(SubC(a, b, 1, 0))

RECURSIVE MulSmallC(_, _, _, _)
MulSmallC(a, k, i, c) ==
    IF i > Len(a) THEN (IF c = 0 THEN <<>> ELSE <<c>>)
    ELSE <<(a[i] * k + c) % BASE>> \o MulSmallC(a, k, i + 1, (a[i] * k + c) \div BASE)

\* a * k for 0 <= k < BASE
MulSmall(a, k) == IF k = 0 THEN <<>> ELSE MulSmallC(a, k, 1, 0)

RECURSIVE MulFrom(_, _, _)
MulFrom(a, b, i) ==
    IF i > Len(b) THEN <<>>
    ELSE Add(MulSmall(a, b[i]), IF a = <<>> THEN <<>> ELSE <<0>> \o MulFrom(a, b, i + 1))

Mul(a, b) == Norm(MulFrom(a, b, 1))

\* <<quotient, remainder>> of a by k, 0 < k <= BASE; the remainder is a plain number
RECURSIVE DivSmallFrom(_, _, _, _)
DivSmallFrom(a, k, i, r) ==
    IF i = 0 THEN <<<<>>, r>>
    ELSE LET rest == DivSmallFrom(a, k, i - 1, (r * BASE + a[i]) % k)
         IN  <<rest[1] \o <<(r * BASE + a[i]) \div k>>, rest[2]>>

NormQuo(d) == <<Norm(d[1]), d[2]>>

DivModSmall(a, k) == NormQuo(DivSmallFrom(a, k, Len(a), 0))

Largest(S) == CHOOSE k \in S : \A j \in S : j <= k

\* the largest t in lo..(lo + 31 * step) with b * t <= cur, in steps of step
QuoStep(cur, b, lo, step) ==
    lo + step * Largest({k \in 0..31 : Le(MulSmall(b, lo + k * step), cur)})

\* the largest t < BASE with b * t <= cur, for cur < b * BASE: three base-32 digits
QuoLimb(cur, b) == QuoStep(cur, b, QuoStep(cur, b, QuoStep(cur, b, 0, 1024), 32), 1)

\* schoolbook long division in base BASE, from the top limb of a down: cur is the
\* remainder so far with limb i of a under it, t the quotient limb it gives
RECURSIVE DivLoop(_, _, _, _, _)
DivLoopWith(a, b, i, cur, t, quo) ==
    DivLoop(a, b, i - 1, Sub(cur, MulSmall(b, t)), <<t>> \o quo)

DivLoopAt(a, b, i, cur, quo) == DivLoopWith(a, b, i, cur, QuoLimb(cur, b), quo)

DivLoop(a, b, i, rem, quo) ==
    IF i = 0 THEN <<Norm(quo), rem>>
    ELSE Strict(rem, DivLoopAt(a, b, i, Norm(<<a[i]>> \o rem), quo))

\* <<quotient, remainder>> of a by b, b > 0
DivMod(a, b) == DivLoop(a, b, Len(a), <<>>, <<>>)

RECURSIVE Pow2Small(_)
Pow2Small(n) == IF n = 0 THEN 1 ELSE 2 * Pow2Small(n - 1)

RECURSIVE BitLenSmall(_)
BitLenSmall(n) == IF n = 0 THEN 0 ELSE 1 + BitLenSmall(n \div 2)

BitLen(a) == IF a = <<>> THEN 0 ELSE (Len(a) - 1) * LimbBits + BitLenSmall(a[Len(a)])

RECURSIVE Zeros(_)
Zeros(n) == IF n = 0 THEN <<>> ELSE <<0>> \o Zeros(n - 1)

\* a * 2^n
Shl(a, n) == IF a = <<>> THEN <<>>
             ELSE Zeros(n \div LimbBits) \o MulSmall(a, Pow2Small(n % LimbBits))

\* floor(a / 2^n)
Shr(a, n) ==
    IF n \div LimbBits >= Len(a) THEN <<>>
    ELSE DivModSmall(SubSeq(a, n \div LimbBits + 1, Len(a)), Pow2Small(n % LimbBits))[1]

\* a mod 2^n
LowBits(a, n) == Sub(a, Shl(Shr(a, n), n))

IsOdd(a) == a # <<>> /\ a[1] % 2 = 1

RECURSIVE Pow(_, _)
Pow(a, n) == IF n = 0 THEN <<1>> ELSE Mul(a, Pow(a, n - 1))

DigitChars == <<"0", "1", "2", "3", "4", "5", "6", "7", "8", "9">>

\* n < 10000 as exactly four decimal digits
Digits4(n) == << DigitChars[(n \div 1000) + 1], DigitChars[((n \div 100) % 10) + 1],
                 DigitChars[((n \div 10) % 10) + 1], DigitChars[(n % 10) + 1] >>

RECURSIVE StripZeros(_)
StripZeros(s) == IF Len(s) > 1 /\ s[1] = "0" THEN StripZeros(Tail(s)) ELSE s

RECURSIVE DecDigits4(_)
DecDigits4With(qr) ==
    IF qr[1] = <<>> THEN Digits4(qr[2]) ELSE DecDigits4(qr[1]) \o Digits4(qr[2])

DecDigits4(a) == DecDigits4With(DivModSmall(a, 10000))

\* a natural as its decimal digits, most significant first ("0" for zero)
DecDigits(a) == StripZeros(DecDigits4(a))

IsAsciiDigit(c) == c \in {"0", "1", "2", "3", "4", "5", "6", "7", "8", "9"}

\* char::to_digit(10) of an ASCII digit
ToDigit(c) == CHOOSE d \in 0..9 : DigitChars[d + 1] = c

\* the natural the digits s[lo..hi] denote (leading zeros allowed)
RECURSIVE DecRange(_, _, _)
DecRangeWith(s, mid, hi, high) ==
    Strict(high, Add(Mul(high, Pow(<<10>>, hi - mid)), DecRange(s, mid + 1, hi)))

DecRange(s, lo, hi) ==
    IF lo > hi THEN <<>>
    ELSE IF lo = hi THEN Big(ToDigit(s[lo]))
    ELSE DecRangeWith(s, (lo + hi) \div 2, hi, DecRange(s, lo, (lo + hi) \div 2))

DecValue(s) == Norm(DecRange(s, 1, Len(s)))

(***************************************************************************)
(* f64: [m, e] is m * 2^e with 2^52 <= m < 2^53, or zero (m = <<>>).       *)
(* Every operation rounds its exact result to nearest, ties to even.  The  *)
(* exponent is unbounded: the values the crate computes stay far inside    *)
(* the normal range (a unit divided by ten once per fractional digit stays *)
(* normal for some 300 digits), so subnormals and infinities do not arise. *)
(***************************************************************************)
MantBits == 53

\* the decimal digits an f64 always keeps (f64::DIGITS)
F64_DIGITS == 15

FZero == [m |-> <<>>, e |-> 0]

\* down, or down + 1: the nearest of the two, the even one on a tie, to a value
\* that is down plus low / (2 * half)
RoundHalfEven(down, low, half) ==
    IF Lt(half, low) \/ (low = half /\ IsOdd(down)) THEN Add(down, <<1>>) ELSE down

\* n / 2^s rounded to nearest, ties to even, s > 0
RoundShift(n, s) == RoundHalfEven(Shr(n, s), LowBits(n, s), Shl(<<1>>, s - 1))

\* a mantissa that rounding carried to 2^53 is halved
FRoundCarry(q, e) ==
    IF BitLen(q) > MantBits THEN [m |-> Shr(q, 1), e |-> e + 1] ELSE [m |-> q, e |-> e]

FRoundBits(n, e, bl) ==
    IF bl = 0 THEN FZero
    ELSE IF bl <= MantBits THEN [m |-> Shl(n, MantBits - bl), e |-> e - (MantBits - bl)]
    ELSE FRoundCarry(RoundShift(n, bl - MantBits), e + (bl - MantBits))

\* the f64 nearest to n * 2^e, n a natural
FRound(n, e) == FRoundBits(n, e, BitLen(n))

\* u64 as f64
U64ToF64(n) == FRound(n, 0)

\* x * y
FMul(x, y) == FRound(Mul(x.m, y.m), x.e + y.e)

MinExp(x, y) == IF x.e < y.e THEN x.e ELSE y.e

\* x + y
FAdd(x, y) ==
    IF x.m = <<>> THEN y
    ELSE IF y.m = <<>> THEN x
    ELSE FRound(Add(Shl(x.m, x.e - MinExp(x, y)), Shl(y.m, y.e - MinExp(x, y))), MinExp(x, y))

\* the number of trailing zero bits of a > 0
RECURSIVE TrailingZerosSmall(_)
TrailingZerosSmall(n) == IF n % 2 = 1 THEN 0 ELSE 1 + TrailingZerosSmall(n \div 2)

RECURSIVE TrailingZeros(_, _)
TrailingZeros(a, i) ==
    IF a[i] = 0 THEN LimbBits + TrailingZeros(a, i + 1) ELSE TrailingZerosSmall(a[i])

ShortSticky(small, low) == <<small[1], small[2] # 0 \/ low # <<>>>>

LongSticky(long) == <<long[1], long[2] # <<>>>>

DivStickyOdd(n, d, tz, odd) ==
    IF Len(odd) = 1 THEN ShortSticky(DivModSmall(Shr(n, tz), odd[1]), LowBits(n, tz))
    ELSE LongSticky(DivMod(n, d))

DivStickyWith(n, d, tz) == DivStickyOdd(n, d, tz, Shr(d, tz))

\* <<floor(n / d), whether the division left a remainder>>, d > 0: by short
\* division when d without its trailing zero bits is a single limb
DivSticky(n, d) == DivStickyWith(n, d, TrailingZeros(d, 1))

FDivWith(x, y, qr) ==
    FRound(Add(MulSmall(qr[1], 2), IF qr[2] THEN <<1>> ELSE <<>>),
           x.e - y.e - (MantBits + 3) - 1)

\* x / y, y nonzero: the quotient to 56 or more bits with a sticky bit below it
FDiv(x, y) ==
    IF x.m = <<>> THEN FZero ELSE FDivWith(x, y, DivSticky(Shl(x.m, MantBits + 3), y.m))

U64_MAX == Sub(Shl(<<1>>, 64), <<1>>)

Saturate(v) == IF Lt(U64_MAX, v) THEN U64_MAX ELSE v

\* f64 to u64 rounded to nearest instead of truncated
F64RoundToU64(x) ==
    IF x.m = <<>> THEN <<>>
    ELSE IF x.e > 64 - MantBits THEN U64_MAX
    ELSE IF x.e >= 0 THEN Saturate(Shl(x.m, x.e))
    ELSE IF 0 - x.e > MantBits THEN <<>>
    ELSE Shr(Add(x.m, Shl(<<1>>, 0 - x.e - 1)), 0 - x.e)

\* f64 as u64: truncated toward zero, saturating at u64::MAX
F64ToU64(x) ==
    IF x.m = <<>> THEN <<>>
    ELSE IF x.e > 64 - MantBits THEN U64_MAX
    ELSE IF x.e >= 0 THEN Saturate(Shl(x.m, x.e))
    ELSE IF 0 - x.e >= MantBits THEN <<>>
    ELSE Shr(x.m, 0 - x.e)

(***************************************************************************)
(* Strings are sequences of characters; a character is a one-character     *)
(* string, except the two non-ASCII letters the unit table knows.          *)
(***************************************************************************)
MICRO_SIGN == "U+00B5"

GREEK_MU == "U+03BC"

Take(s, n) == SubSeq(s, 1, n)

Drop(s, n) == SubSeq(s, n + 1, Len(s))

IsPrefix(t, s) == Len(t) <= Len(s) /\ Take(s, Len(t)) = t

\* the length of the longest prefix of s made of ASCII digits
RECURSIVE DigitSpan(_, _)
DigitSpan(s, i) == IF i <= Len(s) /\ IsAsciiDigit(s[i]) THEN DigitSpan(s, i + 1) ELSE i - 1

\* a unit candidate that also ends at a sign
RECURSIVE TillDigitDotOrSign(_, _)
TillDigitDotOrSign(s, i) ==
    IF i <= Len(s) /\ ~(IsAsciiDigit(s[i]) \/ s[i] \in {".", "-", "+"})
    THEN TillDigitDotOrSign(s, i + 1) ELSE i - 1

\* the length of the longest prefix of s with no ASCII digit and no '.'
RECURSIVE TillDigitOrDot(_, _)
TillDigitOrDot(s, i) ==
    IF i <= Len(s) /\ ~(IsAsciiDigit(s[i]) \/ s[i] = ".") THEN TillDigitOrDot(s, i + 1) ELSE i - 1

(***************************************************************************)
(* GoDurationParseError and nom's IResult.  An error result is recoverable *)
(* (nom::Err::Error) or terminal (nom::Err::Failure).                      *)
(***************************************************************************)
InvalidDuration == [kind |-> "InvalidDuration", text |-> <<>>]

MissingUnit == [kind |-> "MissingUnit", text |-> <<>>]

UnknownUnit(text) == [kind |-> "UnknownUnit", text |-> text]

\* ParseError::from_error_kind and FromExternalError::from_external_error
from_error_kind == InvalidDuration

Ok(rest, val) == [tag |-> "Ok", rest |-> rest, val |-> val]

Error(e) == [tag |-> "Error", err |-> e]

Failure(e) == [tag |-> "Failure", err |-> e]

None == [some |-> FALSE, v |-> <<>>]

Some(v) == [some |-> TRUE, v |-> v]

(***************************************************************************)
(* i64 and GoDuration(i64): a sign and a magnitude, zero never negative.   *)
(***************************************************************************)
I64_MAX == Sub(Shl(<<1>>, 63), <<1>>)

I64(neg, mag) == [neg |-> neg /\ mag # <<>>, mag |-> mag]

GoDuration(n) == n

\* u64::wrapping_add, the sum the crate does not use
wrapping_add(a, b) == LowBits(Add(a, b), 64)

\* u64::saturating_mul, u64::saturating_add
saturating_mul(a, b) == Saturate(Mul(a, b))

saturating_add(a, b) == Saturate(Add(a, b))

\* 0i64.checked_sub_unsigned(n): None below i64::MIN
checked_sub_unsigned(n) == IF Le(n, Add(I64_MAX, <<1>>)) THEN Some(I64(TRUE, n)) ELSE None

\* str::parse::<u64> of a non-empty run of ASCII digits: None on overflow
CheckedU64(v) == IF Lt(U64_MAX, v) THEN None ELSE Some(v)

parse_u64(digits) == CheckedU64(DecValue(digits))

(***************************************************************************)
(* src/src/lib.rs: the parser.                                             *)
(***************************************************************************)
NANOS_PER_MICROSECOND == Big(1000)

NANOS_PER_MILLISECOND == Big(1000000)

NANOS_PER_SECOND == Big(1000000000)

NANOS_PER_MINUTE == Mul(NANOS_PER_SECOND, Big(60))

NANOS_PER_HOUR == Mul(NANOS_PER_MINUTE, Big(60))

\* nom::bytes::complete::take(len)
SplitAt(input, len) == Ok(Drop(input, len), Take(input, len))

\* nom::character::complete::digit1 and digit0
Digit1Of(input, len) == IF len = 0 THEN Error(from_error_kind) ELSE SplitAt(input, len)

digit1(input) == Digit1Of(input, DigitSpan(input, 1))

digit0(input) == SplitAt(input, DigitSpan(input, 1))

StartsWith(input, c) == input # <<>> /\ input[1] = c

\* preceded(char('.'), digit1).map(|frac| (0, Some(frac)))
FracOnly(res) ==
    IF res.tag = "Ok" THEN Ok(res.rest, [int |-> <<>>, frac |-> Some(res.val)]) ELSE res

dot_digit1(input) ==
    IF StartsWith(input, ".") THEN FracOnly(digit1(Tail(input))) ELSE Error(from_error_kind)

\* opt(preceded(char('.'), digit0))
OptFrac(res) == Ok(res.rest, Some(res.val))

opt_dot_digit0(input) ==
    IF StartsWith(input, ".") THEN OptFrac(digit0(Tail(input))) ELSE Ok(input, None)

\* map_res(digit1, str::parse::<u64>)
MapRes(rest, parsed) == IF parsed.some THEN Ok(rest, parsed.v) ELSE Error(from_error_kind)

map_res_u64(res) == IF res.tag = "Ok" THEN MapRes(res.rest, parse_u64(res.val)) ELSE res

\* pair(map_res(...), opt(...))
PairWith(int, frac) == Ok(frac.rest, [int |-> int, frac |-> frac.val])

pair_int_frac(res) == IF res.tag = "Ok" THEN PairWith(res.val, opt_dot_digit0(res.rest)) ELSE res

\* nom::branch::alt of two parsers, neither of which fails terminally
alt(first, second) == IF first.tag = "Ok" THEN first ELSE second

decimal_parts(input) == alt(dot_digit1(input), pair_int_frac(map_res_u64(digit1(input))))

\* a sign that is consumed and then taken for '+'
sign_dropped(input) ==
    IF StartsWith(input, "-") \/ StartsWith(input, "+") THEN Ok(Tail(input), TRUE)
    ELSE Ok(input, TRUE)

\* opt(alt(('-' -> false, '+' -> true))), absent -> true
sign(input) ==
    IF StartsWith(input, "-") THEN Ok(Tail(input), FALSE)
    ELSE IF StartsWith(input, "+") THEN Ok(Tail(input), TRUE)
    ELSE Ok(input, TRUE)

\* the alternatives of unit's alt, in the order the code tries them
UnitAlts == << [tag |-> <<"n", "s">>, scale |-> <<1>>],
               [tag |-> <<MICRO_SIGN, "s">>, scale |-> NANOS_PER_MICROSECOND],
               [tag |-> <<GREEK_MU, "s">>, scale |-> NANOS_PER_MICROSECOND],
               [tag |-> <<"u", "s">>, scale |-> NANOS_PER_MICROSECOND],
               [tag |-> <<"m", "s">>, scale |-> NANOS_PER_MILLISECOND],
               [tag |-> <<"s">>, scale |-> NANOS_PER_SECOND],
               [tag |-> <<"m">>, scale |-> NANOS_PER_MINUTE],
               [tag |-> <<"h">>, scale |-> NANOS_PER_HOUR] >>

Smallest(S) == CHOOSE i \in S : \A j \in S : i <= j

\* all_consuming(alt(...)) on the unit text: the first alternative whose tag is a
\* prefix decides, and it must leave nothing
UnitAltOf(text, hits) ==
    IF hits = {} THEN Error(from_error_kind)
    ELSE IF Len(UnitAlts[Smallest(hits)].tag) # Len(text) THEN Error(from_error_kind)
    ELSE Ok(<<>>, UnitAlts[Smallest(hits)].scale)

unit_alt(text) == UnitAltOf(text, {i \in 1..Len(UnitAlts) : IsPrefix(UnitAlts[i].tag, text)})

UnitFound(input, text, found) ==
    IF found.tag # "Ok" THEN Error(UnknownUnit(text)) ELSE Ok(Drop(input, Len(text)), found.val)

UnitText(input, text) ==
    IF text = <<>> THEN Error(MissingUnit) ELSE UnitFound(input, text, unit_alt(text))

unit(input) == UnitText(input, Take(input, TillDigitOrDot(input, 1)))

\* the unit's error left recoverable
cut_skipped(res) == res

\* nom::combinator::cut: a recoverable error becomes terminal
cut(res) == IF res.tag = "Error" THEN Failure(res.err) ELSE res

\* a result passed on whatever input remains
not_consuming(res) == res

\* nom::combinator::all_consuming
all_consuming(res) ==
    IF res.tag = "Ok" /\ res.rest # <<>> THEN Error(from_error_kind) ELSE res

\* one iteration of the for loop over frac.chars(): scale /= 10.0, then
\* total += scale * digit; st is (scale, total)
FracStepWith(c, total, scale) ==
    [scale |-> scale, total |-> FAdd(total, FMul(scale, U64ToF64(Big(ToDigit(c)))))]

frac_step(c, st) == FracStepWith(c, st.total, FDiv(st.scale, U64ToF64(Big(10))))

\* the iterations for frac[lo..hi], in order
RECURSIVE frac_loop(_, _, _, _)
FracLoopRest(frac, lo, hi, st) == Strict(st, frac_loop(frac, lo, hi, st))

frac_loop(frac, lo, hi, st) ==
    IF lo > hi THEN st
    ELSE IF lo = hi THEN frac_step(frac[lo], st)
    ELSE FracLoopRest(frac, (lo + hi) \div 2 + 1, hi, frac_loop(frac, lo, (lo + hi) \div 2, st))

\* frac.map(|frac| { ...; total as u64 })
frac_nanos(frac, scale) ==
    F64ToU64(frac_loop(frac, 1, Len(frac), [scale |-> U64ToF64(scale), total |-> FZero]).total)

\* the closure mapped over (decimal_parts, unit): frac.map(...).unwrap_or(0), then
\* int.saturating_mul(scale).saturating_add(nanos)
segment_nanos(int, frac, scale) ==
    saturating_add(saturating_mul(int, scale),
                   IF frac.some THEN frac_nanos(frac.v, scale) ELSE <<>>)

\* tuple((decimal_parts, cut(unit))).map(closure)
SegmentUnit(num, u) ==
    IF u.tag # "Ok" THEN u ELSE Ok(u.rest, segment_nanos(num.int, num.frac, u.val))

SegmentNum(num) == IF num.tag # "Ok" THEN num ELSE SegmentUnit(num.val, cut(unit(num.rest)))

segment(input) == SegmentNum(decimal_parts(input))

\* the loop of nom::multi::fold_many1 after its first item
RECURSIVE fold_loop(_, _)
FoldItem(input, acc, item) ==
    IF item.tag = "Error" THEN Ok(input, acc)
    ELSE IF item.tag = "Failure" THEN item
    ELSE fold_loop(item.rest, saturating_add(acc, item.val))

fold_loop(input, acc) == Strict(acc, FoldItem(input, acc, segment(input)))

\* fold_many1(segment, || 0u64, u64::saturating_add)
FoldFirst(item) ==
    IF item.tag = "Error" THEN Error(from_error_kind)
    ELSE IF item.tag = "Failure" THEN item
    ELSE fold_loop(item.rest, saturating_add(<<>>, item.val))

fold_many1(input) == FoldFirst(segment(input))

\* the sign applied to the folded total: nanos <= i64::MAX as u64, or
\* 0i64.checked_sub_unsigned(nanos)
Negated(rest, neg) == IF neg.some THEN Ok(rest, GoDuration(neg.v)) ELSE Error(InvalidDuration)

Signed(positive, folded) ==
    IF folded.tag # "Ok" THEN folded
    ELSE IF positive
         THEN (IF Le(folded.val, I64_MAX) THEN Ok(folded.rest, GoDuration(I64(FALSE, folded.val)))
               ELSE Error(InvalidDuration))
    ELSE Negated(folded.rest, checked_sub_unsigned(folded.val))

ParseSigned(sgn) == Signed(sgn.val, all_consuming(fold_many1(sgn.rest)))

parse_go_duration(input) == ParseSigned(sign(input))

\* nom::Finish::finish followed by .map(|(_, dur)| dur)
Finish(res) ==
    IF res.tag = "Ok" THEN [tag |-> "Ok", val |-> res.val] ELSE [tag |-> "Err", err |-> res.err]

from_str(s) == Finish(parse_go_duration(s))

(***************************************************************************)
(* f64's Display (format_args!("{}", x)): the shortest decimal that parses *)
(* back to x, written without an exponent.                                 *)
(***************************************************************************)
MaxF64Digits == MantBits \div 3

\* the integer nearest to x * 10^f
ScaledRound(x, f) ==
    IF x.e >= 0 THEN Shl(Mul(x.m, Pow(<<10>>, f)), x.e)
    ELSE RoundShift(Mul(x.m, Pow(<<10>>, f)), 0 - x.e)

\* four times the midpoints between x.m and its two neighbours (the lower one
\* is nearer when x.m is a power of two)
Lo4(x) ==
    IF x.m = Shl(<<1>>, MantBits - 1) THEN Sub(MulSmall(x.m, 4), <<1>>)
    ELSE Sub(MulSmall(x.m, 4), <<2>>)

Hi4(x) == Add(MulSmall(x.m, 4), <<2>>)

\* lo <= v <= hi, the ends counting only when x.m is even
Within(x, lo, v, hi) ==
    IF IsOdd(x.m) THEN Lt(lo, v) /\ Lt(v, hi) ELSE Le(lo, v) /\ Le(v, hi)

\* whether the decimal d / 10^f rounds to x: it lies between the midpoints to x's
\* two neighbours, compared in units of 2^(x.e - 2) / 10^f
RoundsTo(d, f, x) ==
    IF x.e >= 2
    THEN Within(x, Shl(Mul(Lo4(x), Pow(<<10>>, f)), x.e - 2), d,
                   Shl(Mul(Hi4(x), Pow(<<10>>, f)), x.e - 2))
    ELSE Within(x, Mul(Lo4(x), Pow(<<10>>, f)), Shl(d, 2 - x.e), Mul(Hi4(x), Pow(<<10>>, f)))

\* the least number of fractional digits with which x is written back exactly
RECURSIVE FirstFrac(_, _)
FirstFrac(x, f) ==
    IF f >= MaxF64Digits \/ RoundsTo(ScaledRound(x, f), f, x) THEN f ELSE FirstFrac(x, f + 1)

ShortestFrac(x) == FirstFrac(x, 0)

RECURSIVE PadZeros(_, _)
PadZeros(s, len) == IF Len(s) >= len THEN s ELSE PadZeros(<<"0">> \o s, len)

\* digits with a point before its last f digits
PointAt(digits, f) ==
    IF f = 0 THEN digits
    ELSE Take(digits, Len(digits) - f) \o <<".">> \o Drop(digits, Len(digits) - f)

DisplayFrac(x, f) == PointAt(PadZeros(DecDigits(ScaledRound(x, f)), f + 1), f)

F64Display(x) == IF x.m = <<>> THEN <<"0">> ELSE DisplayFrac(x, ShortestFrac(x))

(***************************************************************************)
(* src/src/lib.rs: impl fmt::Display for GoDuration.                       *)
(***************************************************************************)
\* i64::is_negative, i64::unsigned_abs
is_negative(n) == n.neg

unsigned_abs(n) == n.mag

\* format_args!("{}", nanos as f64 / per as f64)
as_f64_div(nanos, per) == F64Display(FDiv(U64ToF64(nanos), U64ToF64(per)))

\* "{}m", nanos / NANOS_PER_MINUTE; nanos %= NANOS_PER_MINUTE; "{}s", seconds
FmtMinutes(ms) ==
    DecDigits(ms[1]) \o <<"m">> \o as_f64_div(ms[2], NANOS_PER_SECOND) \o <<"s">>

\* "{}h", nanos / NANOS_PER_HOUR; nanos %= NANOS_PER_HOUR; then as for minutes
FmtHours(hm) == DecDigits(hm[1]) \o <<"h">> \o FmtMinutes(DivMod(hm[2], NANOS_PER_MINUTE))

\* the scale chosen with > where the code has >=
FmtAbsAbove(nanos) ==
    IF Lt(NANOS_PER_HOUR, nanos) THEN FmtHours(DivMod(nanos, NANOS_PER_HOUR))
    ELSE IF Lt(NANOS_PER_MINUTE, nanos) THEN FmtMinutes(DivMod(nanos, NANOS_PER_MINUTE))
    ELSE IF Lt(NANOS_PER_SECOND, nanos) THEN as_f64_div(nanos, NANOS_PER_SECOND) \o <<"s">>
    ELSE IF Lt(NANOS_PER_MILLISECOND, nanos)
         THEN as_f64_div(nanos, NANOS_PER_MILLISECOND) \o <<"m", "s">>
    ELSE IF Lt(NANOS_PER_MICROSECOND, nanos)
         THEN as_f64_div(nanos, NANOS_PER_MICROSECOND) \o <<MICRO_SIGN, "s">>
    ELSE IF nanos # <<>> THEN DecDigits(nanos) \o <<"n", "s">>
    ELSE <<"0", "s">>

FmtAbs(nanos) ==
    IF Le(NANOS_PER_HOUR, nanos) THEN FmtHours(DivMod(nanos, NANOS_PER_HOUR))
    ELSE IF Le(NANOS_PER_MINUTE, nanos) THEN FmtMinutes(DivMod(nanos, NANOS_PER_MINUTE))
    ELSE IF Le(NANOS_PER_SECOND, nanos) THEN as_f64_div(nanos, NANOS_PER_SECOND) \o <<"s">>
    ELSE IF Le(NANOS_PER_MILLISECOND, nanos)
         THEN as_f64_div(nanos, NANOS_PER_MILLISECOND) \o <<"m", "s">>
    ELSE IF Le(NANOS_PER_MICROSECOND, nanos)
         THEN as_f64_div(nanos, NANOS_PER_MICROSECOND) \o <<MICRO_SIGN, "s">>
    ELSE IF nanos # <<>> THEN DecDigits(nanos) \o <<"n", "s">>
    ELSE <<"0", "s">>

fmt(self) == (IF is_negative(self) THEN <<"-">> ELSE <<>>) \o FmtAbs(unsigned_abs(self))

(***************************************************************************)
(* src/src/nom.rs: go_duration.  Its private sign, decimal_parts and unit  *)
(* are the same text as those of lib.rs and are shared here; what differs  *)
(* is the closure (map_or) and the positive range check (i64::try_from).   *)
(***************************************************************************)
\* a u64 cast to i64 by its low 63 bits, no value refused
try_from_u64_lossy(nanos) == Some(I64(FALSE, LowBits(nanos, 63)))

\* i64::try_from(nanos: u64)
try_from_u64(nanos) == IF Le(nanos, I64_MAX) THEN Some(I64(FALSE, nanos)) ELSE None

\* frac.map_or(0, |frac| { ...; total as u64 }), then the saturating arithmetic
nom_segment_nanos(int, frac, scale) ==
    saturating_add(saturating_mul(int, scale),
                   IF frac.some THEN frac_nanos(frac.v, scale) ELSE <<>>)

NomSegmentUnit(num, u) ==
    IF u.tag # "Ok" THEN u ELSE Ok(u.rest, nom_segment_nanos(num.int, num.frac, u.val))

NomSegmentNum(num) ==
    IF num.tag # "Ok" THEN num ELSE NomSegmentUnit(num.val, cut(unit(num.rest)))

nom_segment(input) == NomSegmentNum(decimal_parts(input))

RECURSIVE nom_fold_loop(_, _)
NomFoldItem(input, acc, item) ==
    IF item.tag = "Error" THEN Ok(input, acc)
    ELSE IF item.tag = "Failure" THEN item
    ELSE nom_fold_loop(item.rest, saturating_add(acc, item.val))

nom_fold_loop(input, acc) == Strict(acc, NomFoldItem(input, acc, nom_segment(input)))

NomFoldFirst(item) ==
    IF item.tag = "Error" THEN Error(from_error_kind)
    ELSE IF item.tag = "Failure" THEN item
    ELSE nom_fold_loop(item.rest, saturating_add(<<>>, item.val))

nom_fold_many1(input) == NomFoldFirst(nom_segment(input))

\* i64::try_from(nanos).map_err(..)?, or 0i64.checked_sub_unsigned(nanos).ok_or(..)?
NomConverted(rest, converted) ==
    IF converted.some THEN Ok(rest, GoDuration(converted.v)) ELSE Error(InvalidDuration)

NomSigned(positive, folded) ==
    IF folded.tag # "Ok" THEN folded
    ELSE IF positive THEN NomConverted(folded.rest, try_from_u64(folded.val))
    ELSE NomConverted(folded.rest, checked_sub_unsigned(folded.val))

\* the fold without all_consuming around it
NomParseUnconsumed(sgn) == NomSigned(sgn.val, nom_fold_many1(sgn.rest))

NomParseSigned(sgn) == NomSigned(sgn.val, all_consuming(nom_fold_many1(sgn.rest)))

go_duration(input) == NomParseSigned(sign(input))

(***************************************************************************)
(* src/src/serde.rs.  A deserializer is handed one token; a decode yields  *)
(* Ok(GoDuration) or Err(error), the error being a parse error passed      *)
(* through de::Error::custom or the deserializer's own "invalid type".     *)
(***************************************************************************)
StrToken(s) == [kind |-> "Str", str |-> s, n |-> <<>>, neg |-> FALSE]

\* an i64 token carries a sign and a magnitude, a u64 token a magnitude
I64Token(v) == [kind |-> "I64", str |-> <<>>, n |-> v.mag, neg |-> v.neg]

U64Token(n) == [kind |-> "U64", str |-> <<>>, n |-> n, neg |-> FALSE]

DeOk(v) == [tag |-> "Ok", val |-> v]

DeErr(e) == [tag |-> "Err", err |-> e]

\* #[error("...")] of GoDurationParseError: its Display, as the pieces of the message
error_display(e) ==
    IF e.kind = "InvalidDuration" THEN <<"time: invalid duration">>
    ELSE IF e.kind = "MissingUnit" THEN <<"time: missing unit in duration">>
    ELSE <<"time: unknown unit \"">> \o e.text \o <<"\" in duration">>

\* de::Error::custom(e): an error holding the message e displays
custom(e) == [kind |-> "Custom", text |-> error_display(e)]

InvalidType == [kind |-> "InvalidType", text |-> <<>>]

\* GoDuration::from(i64) and GoDuration::try_from(&str): direct conversion and the parser
from_i64(value) == GoDuration(value)

try_from_str(value) == from_str(value)

nanoseconds(self) == self

visit_i64(value) == DeOk(from_i64(value))

\* a u64 cast to i64 without the range check
visit_u64_unchecked(value) == visit_i64(I64(FALSE, value))

visit_u64(value) ==
    IF Le(value, I64_MAX) THEN visit_i64(I64(FALSE, value)) ELSE DeErr(custom(InvalidDuration))

\* Self::Value::try_from(value).map_err(E::custom)
MapErrCustom(res) == IF res.tag = "Ok" THEN DeOk(res.val) ELSE DeErr(custom(res.err))

visit_str(value) == MapErrCustom(try_from_str(value))

\* Deserializer::deserialize_any: the visitor method is chosen by the token
deserialize_any(token) ==
    IF token.kind = "Str" THEN visit_str(token.str)
    ELSE IF token.kind = "I64" THEN visit_i64(I64(token.neg, token.n))
    ELSE visit_u64(token.n)

\* the two deserializers of the tests: serde_json takes deserialize_str and
\* deserialize_i64 as the type to read, serde_test forwards both to deserialize_any
SerdeJson == "serde_json"

SerdeTest == "serde_test"

Deserializers == {SerdeJson, SerdeTest}

deserialize_str(de, token) ==
    IF de = SerdeJson /\ token.kind # "Str" THEN DeErr(InvalidType) ELSE deserialize_any(token)

deserialize_i64(de, token) ==
    IF de = SerdeJson /\ token.kind = "Str" THEN DeErr(InvalidType) ELSE deserialize_any(token)

\* impl Deserialize for GoDuration, nanoseconds::deserialize
deserialize(de, token) == deserialize_str(de, token)

nanoseconds_deserialize(de, token) == deserialize_i64(de, token)

\* impl Serialize for GoDuration (collect_str), nanoseconds::serialize (serialize_i64)
serialize(self) == StrToken(fmt(self))

nanoseconds_serialize(value) == I64Token(nanoseconds(value))

(***************************************************************************)
(* The state: a client holds an input string and the outcome of each entry *)
(* point it has applied to it, a GoDuration value with the strings Display *)
(* has rendered from it, and a token with the outcome of decoding it.      *)
(***************************************************************************)
VARIABLES input, iresult, result, piped, dur, shown, token, de, mode, decoded, encoded

vars == <<input, iresult, result, piped, dur, shown, token, de, mode, decoded, encoded>>

NotRun == [tag |-> "NotRun"]

\* #[derive(Default)] on GoDuration: zero
Default == GoDuration(I64(FALSE, <<>>))

(***************************************************************************)
(* Bounds of the inputs.                                                   *)
(***************************************************************************)
\* the longest string enumerated over Alphabet
MaxLen == 4

\* how far around a numeric boundary the numerals go
MaxDelta == 2

\* the longest fraction of repeated digits
MaxFracLen == 17

\* the most repetitions of one segment
MaxSegs == 3

\* the largest power of ten scaling a formatted value
MaxPow10 == 18

\* the most strings rendered from one value and its re-parses
MaxShown == 2

Alphabet == {"-", "+", "1", ".", "s", "m"}

ShortInputs == UNION {[1..k -> Alphabet] : k \in 0..MaxLen}

\* the strings of tests::parse_valid and tests::parse_invalid
TestInputs ==
    { <<"0", "s">>, <<"+", "4", "2", "n", "s">>, <<".", "1", "u", "s">>,
      <<".", "1", "n", "s", "0", ".", "9", "n", "s">>, <<"1", "n", "s", "9", "n", "s">>,
      <<"1", ".", "n", "s">>, <<"2", "n", "s">>, <<"2", "u", "s">>, <<"-", "2", "u", "s">>,
      <<"0", ".", "2", "u", "s">>,
      <<"0", ".", "0", "0", "0", "0", "0", "0", "0", "0", "0", "0", "0", "0", "3", "h">>,
      <<"1", "n", "s">>, <<"1", "u", "s">>, <<"1", MICRO_SIGN, "s">>, <<"1", GREEK_MU, "s">>,
      <<"1", "m", "s">>, <<"1", "s">>, <<"1", "m">>, <<"1", "h">>,
      <<"0">>, <<"-", "1", "m", "-", "3", "0", "s">>, <<"-", "2">>, <<"0", "z">>,
      <<"1", "m", "-", "3", "0", "s">>, <<"1", "m", "+", "3", "0", "s">>,
      <<"-", "1", "m", "+", "3", "0", "s">>, <<"-">>, <<"+">>, <<" ">>,
      <<"-", "1", " ", "m">>, <<"1", "7", "h", " ">>, <<" ", "4", "2", "s">>,
      <<"1", "h", "3", "0", "m">>, <<"-", "0", "s">>, <<"1", "s", " ", "x", "y", "z">>,
      <<"0", ".", "6", "9", "9", "9", "9", "9", "9", "9", "9", "9", "9", "9", "9", "9", "9", "9", "h">> }

Signs == {<<>>, <<"-">>, <<"+">>}

UnitNames == {UnitAlts[i].tag : i \in 1..Len(UnitAlts)}

\* the numerals around i64::MAX, around u64::MAX, and the hours around their overflow
Around(a) ==
    {Add(a, Big(k)) : k \in 0..MaxDelta + 1} \cup {Sub(a, Big(k)) : k \in 0..MaxDelta}

BoundaryNumerals ==
    {DecDigits(a) : a \in Around(I64_MAX) \cup Around(U64_MAX)
                            \cup Around(Big(2562047)) \cup Around(Big(5124095))}

BoundaryInputs ==
    {sg \o digits \o u : sg \in Signs, digits \in BoundaryNumerals, u \in {<<"n", "s">>, <<"h">>}}

RECURSIVE Repeat(_, _)
Repeat(s, n) == IF n = 0 THEN <<>> ELSE s \o Repeat(s, n - 1)

\* one segment repeated, whose sum passes i64::MAX and then u64::MAX
RepeatInputs ==
    {sg \o Repeat(seg, n) : sg \in Signs, n \in 1..MaxSegs,
        seg \in { DecDigits(I64_MAX) \o <<"n", "s">>, <<"2", "5", "6", "2", "0", "4", "7", "h">>,
                  <<"1", "n", "s">>, <<".", "9", "n", "s">>, <<"1", ".", "5", "u", "s">> }}

\* the fractional digits tried at each length: nines, and the digits in order
FracDigits(n) ==
    {Repeat(<<"9">>, n), [i \in 1..n |-> DigitChars[(i % 10) + 1]]}

\* fractions of every length, alone or after a segment at i64::MAX
FractionInputs ==
    {sg \o pre \o int \o <<".">> \o frac \o u :
        sg \in {<<>>, <<"-">>}, pre \in {<<>>, DecDigits(I64_MAX) \o <<"n", "s">>},
        int \in {<<>>, <<"1">>}, frac \in UNION {FracDigits(n) : n \in 1..MaxFracLen},
        u \in {<<"n", "s">>, <<"h">>}}

Inputs == ShortInputs \cup TestInputs \cup BoundaryInputs \cup RepeatInputs \cup FractionInputs

\* the values handed to Display: every unit boundary and both ends of the range,
\* and short mantissas scaled by powers of ten
Magnitudes ==
    UNION {Around(a) : a \in {Big(MaxDelta), NANOS_PER_MICROSECOND, NANOS_PER_MILLISECOND,
                               NANOS_PER_SECOND, NANOS_PER_MINUTE, NANOS_PER_HOUR,
                               Sub(I64_MAX, Big(MaxDelta + 1))}}
    \cup {Mul(Big(m), Pow(<<10>>, k)) : m \in {1, 15, 123, 999, 1001}, k \in 0..MaxPow10}

Values ==
    {I64(neg, mag) : neg \in BOOLEAN, mag \in {a \in Magnitudes : Le(a, I64_MAX)}}
    \cup {I64(TRUE, Add(I64_MAX, <<1>>))}

\* the tokens handed to a deserializer
Tokens ==
    {StrToken(s) : s \in TestInputs \cup {<<"2", "s">>, <<"2", "0", "n", "s">>, <<"1", "0", "z">>}
                                       \cup UNION {[1..k -> Alphabet] : k \in 0..MaxLen - 2}}
    \cup {I64Token(v) : v \in {I64(neg, mag) : neg \in BOOLEAN,
                                   mag \in Around(Big(MaxDelta)) \cup Around(Sub(I64_MAX, Big(MaxDelta + 1)))
                                             \cup {Big(11), Big(17), Big(9000000)}}}
    \cup {I64Token(I64(TRUE, Add(I64_MAX, <<1>>)))}
    \cup {U64Token(n) : n \in Around(Big(MaxDelta)) \cup Around(Sub(I64_MAX, <<1>>))
                                \cup Around(Sub(U64_MAX, Big(MaxDelta + 1)))}

NoToken == [kind |-> "None", str |-> <<>>, n |-> <<>>, neg |-> FALSE]

\* a client about to parse a string
InitParse ==
    /\ input \in Inputs
    /\ iresult = NotRun /\ result = NotRun /\ piped = NotRun
    /\ dur = Default /\ shown = <<>>
    /\ token = NoToken /\ de = SerdeTest /\ mode = "none" /\ decoded = NotRun /\ encoded = NotRun

\* a client holding a value built from an i64 (GoDuration(n))
InitFormat ==
    /\ dur \in {GoDuration(v) : v \in Values}
    /\ input = <<>> /\ iresult = NotRun /\ result = NotRun /\ piped = NotRun
    /\ shown = <<>>
    /\ token = NoToken /\ de = SerdeTest /\ mode = "none" /\ decoded = NotRun /\ encoded = NotRun

\* a client about to decode a token with one of the deserializers
InitSerde ==
    /\ token \in Tokens
    /\ de \in Deserializers
    /\ input = <<>> /\ iresult = NotRun /\ result = NotRun /\ piped = NotRun
    /\ dur = Default /\ shown = <<>>
    /\ mode = "none" /\ decoded = NotRun /\ encoded = NotRun

Init == InitParse \/ InitFormat \/ InitSerde

Fresh == iresult = NotRun /\ result = NotRun /\ piped = NotRun

\* parse_go_duration(input), as tests::parse_valid and tests::parse_invalid call it
ParseGoDuration ==
    /\ Fresh
    /\ iresult' = parse_go_duration(input)
    /\ dur' = IF iresult'.tag = "Ok" THEN iresult'.val ELSE dur
    /\ UNCHANGED <<input, result, piped, shown, token, de, mode, decoded, encoded>>

\* input.parse::<GoDuration>()
FromStr ==
    /\ Fresh
    /\ result' = from_str(input)
    /\ dur' = IF result'.tag = "Ok" THEN result'.val ELSE dur
    /\ UNCHANGED <<input, iresult, piped, shown, token, de, mode, decoded, encoded>>

\* go_duration(input) of nom.rs
NomGoDuration ==
    /\ Fresh
    /\ piped' = go_duration(input)
    /\ dur' = IF piped'.tag = "Ok" THEN piped'.val ELSE dur
    /\ UNCHANGED <<input, iresult, result, shown, token, de, mode, decoded, encoded>>

\* dur.to_string(): Display::fmt into a fresh String
DisplayFmt ==
    /\ Len(shown) < MaxShown
    /\ shown = <<>> \/ (shown # <<>> /\ result # NotRun /\ input = shown[Len(shown)])
    /\ shown' = Append(shown, fmt(dur))
    /\ UNCHANGED <<input, iresult, result, piped, dur, token, de, mode, decoded, encoded>>

\* the string Display rendered last, parsed back with str::parse
ParseShown ==
    /\ shown # <<>>
    /\ result = NotRun \/ input # shown[Len(shown)]
    /\ input' = shown[Len(shown)]
    /\ result' = from_str(input')
    /\ dur' = IF result'.tag = "Ok" THEN result'.val ELSE dur
    /\ UNCHANGED <<iresult, piped, shown, token, de, mode, decoded, encoded>>

\* GoDuration::deserialize(de) on the token
Deserialize ==
    /\ token # NoToken
    /\ decoded = NotRun
    /\ decoded' = deserialize(de, token)
    /\ mode' = "string"
    /\ dur' = IF decoded'.tag = "Ok" THEN decoded'.val ELSE dur
    /\ UNCHANGED <<input, iresult, result, piped, shown, token, de, encoded>>

\* nanoseconds::deserialize(de) on the token
NanosDeserialize ==
    /\ token # NoToken
    /\ decoded = NotRun
    /\ decoded' = nanoseconds_deserialize(de, token)
    /\ mode' = "nanoseconds"
    /\ dur' = IF decoded'.tag = "Ok" THEN decoded'.val ELSE dur
    /\ UNCHANGED <<input, iresult, result, piped, shown, token, de, encoded>>

\* dur.serialize(serializer)
Serialize ==
    /\ encoded = NotRun
    /\ mode # "nanoseconds"
    /\ encoded' = serialize(dur)
    /\ UNCHANGED <<input, iresult, result, piped, dur, shown, token, de, mode, decoded>>

\* nanoseconds::serialize(&dur, serializer)
NanosSerialize ==
    /\ encoded = NotRun
    /\ mode # "string"
    /\ encoded' = nanoseconds_serialize(dur)
    /\ UNCHANGED <<input, iresult, result, piped, dur, shown, token, de, mode, decoded>>

NextParse == ParseGoDuration \/ FromStr \/ NomGoDuration

NextFormat == DisplayFmt \/ ParseShown

NextSerde == Deserialize \/ NanosDeserialize \/ Serialize \/ NanosSerialize

\* a client goes on as what it has begun as: one that holds a token decodes and
\* encodes, one that has rendered a string or called a nom entry point stays with
\* the formatter or the parser
Next ==
    \/ token = NoToken /\ shown = <<>> /\ NextParse
    \/ token = NoToken /\ iresult = NotRun /\ piped = NotRun /\ NextFormat
    \/ token # NoToken /\ NextSerde

Spec == Init /\ [][Next]_vars

\* the parser alone, the formatter with the parser behind it, the serde adapter alone
SpecParse == InitParse /\ [][NextParse]_vars

SpecFormat == InitFormat /\ [][NextFormat]_vars

SpecSerde == InitSerde /\ [][NextSerde]_vars

(***************************************************************************)
(* The reference the parser is held against: the grammar                   *)
(* sign? (number unit)+ read directly off the string, and the value of a   *)
(* string of that form in exact arithmetic.                                *)
(***************************************************************************)
RECURSIVE RefDigits(_, _)
RefDigits(s, i) ==
    IF i <= Len(s) /\ s[i] \in {"0", "1", "2", "3", "4", "5", "6", "7", "8", "9"}
    THEN RefDigits(s, i + 1) ELSE i - 1

\* the length of the number s begins with, 0 if it begins with none:
\* digits, digits '.' digits?, or '.' digits
RefNumberLen(s) ==
    LET int == RefDigits(s, 1)
    IN  IF int > 0
        THEN (IF int < Len(s) /\ s[int + 1] = "." THEN RefDigits(s, int + 2) ELSE int)
        ELSE IF s # <<>> /\ s[1] = "." /\ RefDigits(s, 2) > 1 THEN RefDigits(s, 2)
        ELSE 0

\* the end of the unit candidate that starts at s[i]: the next digit, '.' or the end
RECURSIVE RefCandidateEnd(_, _)
RefCandidateEnd(s, i) ==
    IF i <= Len(s) /\ s[i] \notin {"0", "1", "2", "3", "4", "5", "6", "7", "8", "9", "."}
    THEN RefCandidateEnd(s, i + 1) ELSE i - 1

\* the unit table: ns, us (three spellings), ms, s, m, h
RefScale(u) ==
    CASE u = <<"n", "s">> -> <<1>>
      [] u \in {<<"u", "s">>, <<MICRO_SIGN, "s">>, <<GREEK_MU, "s">>} -> Big(1000)
      [] u = <<"m", "s">> -> Big(1000000)
      [] u = <<"s">> -> Big(1000000000)
      [] u = <<"m">> -> Mul(Big(60), Big(1000000000))
      [] u = <<"h">> -> Mul(Big(3600), Big(1000000000))
      [] OTHER -> <<>>

\* the integer and the fractional digits of a number
RefInt(num) == SubSeq(num, 1, RefDigits(num, 1))

RefFrac(num) == SubSeq(num, RefDigits(num, 1) + 2, Len(num))

\* how the grammar reads s, the input after its sign: the segments of its longest
\* prefix (number unit)*, and what stops the reading: "end"; "number", no number
\* where one must begin or one whose integer part is no u64; "missing" or
\* "unknown", a number followed by the unit candidate cand
RECURSIVE RefRead(_, _)
RefRead(s, segs) ==
    LET n    == RefNumberLen(s)
        num  == SubSeq(s, 1, n)
        e    == RefCandidateEnd(s, n + 1)
        cand == SubSeq(s, n + 1, e)
    IN  IF s = <<>> THEN [segs |-> segs, stop |-> "end", cand |-> <<>>, rest |-> s]
        ELSE IF n = 0 \/ Lt(Sub(Shl(<<1>>, 64), <<1>>), DecValue(RefInt(num)))
             THEN [segs |-> segs, stop |-> "number", cand |-> <<>>, rest |-> s]
        ELSE IF e = n THEN [segs |-> segs, stop |-> "missing", cand |-> cand, rest |-> s]
        ELSE IF RefScale(cand) = <<>>
             THEN [segs |-> segs, stop |-> "unknown", cand |-> cand, rest |-> s]
        ELSE RefRead(SubSeq(s, e + 1, Len(s)),
                     Append(segs, [int |-> RefInt(num), frac |-> RefFrac(num), unit |-> cand]))

RefSigned(s) == s # <<>> /\ s[1] \in {"-", "+"}

RefBody(s) == IF RefSigned(s) THEN Tail(s) ELSE s

RefReading(s) == RefRead(RefBody(s), <<>>)

\* s is sign? segment+
IsDuration(s) == RefReading(s).stop = "end" /\ RefReading(s).segs # <<>>

\* floor(frac * scale / 10^digits): the fraction of a segment in whole nanoseconds
RefFracNanos(seg) ==
    DivMod(Mul(DecValue(seg.frac), RefScale(seg.unit)), Pow(<<10>>, Len(seg.frac)))[1]

\* the magnitude of a segment, its fraction truncated toward zero
RefSegNanos(seg) == Add(Mul(DecValue(seg.int), RefScale(seg.unit)), RefFracNanos(seg))

RECURSIVE RefSum(_, _)
RefSum(segs, i) ==
    IF i > Len(segs) THEN <<>> ELSE Add(RefSegNanos(segs[i]), RefSum(segs, i + 1))

\* the mathematical sum of the segments' magnitudes
RefTotal(s) == Norm(RefSum(RefReading(s).segs, 1))

\* the largest magnitude the sign of s allows: 2^63 after '-', 2^63 - 1 otherwise
RefBound(s) ==
    IF s # <<>> /\ s[1] = "-" THEN Shl(<<1>>, 63) ELSE Sub(Shl(<<1>>, 63), <<1>>)

\* the segments whose fraction has more digits than an f64 keeps
RefLong(s) ==
    {i \in 1..Len(RefReading(s).segs) : Len(RefReading(s).segs[i].frac) > F64_DIGITS}

\* the fraction of a segment as the parser's f64 loop yields it where the fraction
\* has more digits than an f64 keeps, exact otherwise
RefFracComputed(seg) ==
    IF Len(seg.frac) > F64_DIGITS THEN frac_nanos(seg.frac, RefScale(seg.unit))
    ELSE RefFracNanos(seg)

RECURSIVE RefSumComputed(_, _)
RefSumComputed(segs, i) ==
    IF i > Len(segs) THEN <<>>
    ELSE Add(Add(Mul(DecValue(segs[i].int), RefScale(segs[i].unit)), RefFracComputed(segs[i])),
             RefSumComputed(segs, i + 1))

\* the unbounded sum of the segments' magnitudes, fractions as computed
RefComputed(s) == Norm(RefSumComputed(RefReading(s).segs, 1))

ParsedOk(s, mag) == [tag |-> "Ok", val |-> I64(s # <<>> /\ s[1] = "-", mag)]

ParsedErr(e) == [tag |-> "Err", err |-> e]

Numeral(a, u) == DecDigits(a) \o u

(***************************************************************************)
(* C1 as stated: a string of segments parses exactly when the exact sum of *)
(* its segments' magnitudes (fractions truncated toward zero) is within    *)
(* the bound of its sign, and fails with InvalidDuration otherwise.        *)
(***************************************************************************)
C1_AsStated ==
    result # NotRun /\ IsDuration(input) =>
        IF Le(RefTotal(input), RefBound(input)) THEN result.tag = "Ok"
        ELSE result = ParsedErr(InvalidDuration)

(***************************************************************************)
(* C1: a string of segments parses exactly when the sum of its segments'   *)
(* magnitudes, each fraction contributing what the f64 loop computes for   *)
(* it, is at most 2^63 - 1 without a '-' and at most 2^63 with one; the    *)
(* value is then that sum, never a saturated or wrapped one; otherwise the *)
(* parse fails with InvalidDuration, also where a product or the running   *)
(* sum passes u64::MAX.  i64::MAX and i64::MIN nanoseconds parse,          *)
(* i64::MAX + 1 and i64::MIN - 1 nanoseconds do not.                       *)
(***************************************************************************)
C1_Range ==
    /\ result # NotRun /\ IsDuration(input) =>
        IF Le(RefComputed(input), RefBound(input))
        THEN result = ParsedOk(input, RefComputed(input))
        ELSE result = ParsedErr(InvalidDuration)
    /\ result # NotRun /\ input = Numeral(Sub(Shl(<<1>>, 63), <<1>>), <<"n", "s">>)
        => result = [tag |-> "Ok", val |-> [neg |-> FALSE, mag |-> Sub(Shl(<<1>>, 63), <<1>>)]]
    /\ result # NotRun /\ input = <<"-">> \o Numeral(Shl(<<1>>, 63), <<"n", "s">>)
        => result = [tag |-> "Ok", val |-> [neg |-> TRUE, mag |-> Shl(<<1>>, 63)]]
    /\ result # NotRun /\ input = Numeral(Shl(<<1>>, 63), <<"n", "s">>)
        => result = ParsedErr(InvalidDuration)
    /\ result # NotRun /\ input = <<"-">> \o Numeral(Add(Shl(<<1>>, 63), <<1>>), <<"n", "s">>)
        => result = ParsedErr(InvalidDuration)

\* a string of segments whose sum passes u64::MAX has been refused
C1_Witness ==
    /\ result = ParsedErr(InvalidDuration)
    /\ IsDuration(input)
    /\ Len(RefReading(input).segs) > 1
    /\ Lt(Sub(Shl(<<1>>, 64), <<1>>), RefComputed(input))

(***************************************************************************)
(* C2: for every i64 value d the string Display renders from d parses, and *)
(* the value parsed renders to the same string again (format, parse,       *)
(* format is stable), i64::MIN, i64::MAX and values with a fractional      *)
(* seconds, milliseconds or microseconds component included.               *)
(***************************************************************************)
C2_RoundTrip ==
    /\ shown # <<>> /\ result # NotRun => result.tag = "Ok"
    /\ \A i \in 1..Len(shown) : shown[i] = shown[1]

\* i64::MIN has been rendered, parsed back and rendered again
C2_Witness ==
    /\ Len(shown) = 2
    /\ result.tag = "Ok"
    /\ input = shown[1]
    /\ dur = [neg |-> TRUE, mag |-> Shl(<<1>>, 63)]

(***************************************************************************)
(* C3: in any segment, once a number has been read the unit candidate is   *)
(* the run of characters up to the next ASCII digit, '.' or the end; an    *)
(* empty candidate fails the whole parse with MissingUnit, a candidate     *)
(* that is none of ns, us (u, U+00B5 or U+03BC), ms, s, m, h fails it     *)
(* with UnknownUnit carrying exactly the candidate.  The error is terminal *)
(* (nom's Failure):                                                        *)
(* the segments before it give no partial Ok and it is never turned into   *)
(* InvalidDuration.                                                        *)
(***************************************************************************)
C3_UnitErrors ==
    /\ result # NotRun /\ RefReading(input).stop = "missing" => result = ParsedErr(MissingUnit)
    /\ result # NotRun /\ RefReading(input).stop = "unknown"
        => result = ParsedErr(UnknownUnit(RefReading(input).cand))
    /\ iresult # NotRun /\ RefReading(input).stop = "missing" => iresult = Failure(MissingUnit)
    /\ iresult # NotRun /\ RefReading(input).stop = "unknown"
        => iresult = Failure(UnknownUnit(RefReading(input).cand))
    /\ result # NotRun /\ input = <<"1", "7", "h", " ">>
        => result = ParsedErr([kind |-> "UnknownUnit", text |-> <<"h", " ">>])
    /\ result # NotRun /\ input = <<"0", "z">>
        => result = ParsedErr([kind |-> "UnknownUnit", text |-> <<"z">>])
    /\ result # NotRun /\ input = <<"0">>
        => result = ParsedErr([kind |-> "MissingUnit", text |-> <<>>])

\* a unit candidate after a complete segment has been refused
C3_Witness ==
    /\ iresult.tag = "Failure"
    /\ iresult.err.kind = "UnknownUnit"
    /\ RefReading(input).segs # <<>>
    /\ RefReading(input).stop = "unknown"

(***************************************************************************)
(* C4: the top-level parse gives Ok only when the entire input is          *)
(* sign? segment+, nothing remaining; an input that is empty or only a     *)
(* sign, that has (after the sign) a character no number can begin with,   *)
(* or that leaves content after its last complete segment, such as a       *)
(* trailing '.', fails with InvalidDuration.                               *)
(***************************************************************************)
C4_FullConsumption ==
    /\ result # NotRun /\ result.tag = "Ok" => IsDuration(input)
    /\ iresult # NotRun /\ iresult.tag = "Ok" => iresult.rest = <<>> /\ IsDuration(input)
    /\ result # NotRun /\ RefReading(input).stop = "number" => result = ParsedErr(InvalidDuration)
    /\ result # NotRun /\ RefReading(input).stop = "end" /\ RefReading(input).segs = <<>>
        => result = ParsedErr(InvalidDuration)

\* a trailing '.' after a complete segment has been refused
C4_Witness ==
    /\ result = ParsedErr(InvalidDuration)
    /\ RefReading(input).segs # <<>>
    /\ RefReading(input).rest = <<".">>

\* s begins with a complete duration and goes on with something else
HasDurationPrefix(s) == \E p \in 1..Len(s) - 1 : IsDuration(SubSeq(s, 1, p))

(***************************************************************************)
(* C5 as stated: go_duration does not enforce full consumption; on an      *)
(* input that is a valid duration followed by other content it succeeds    *)
(* and reports the input that remains.                                     *)
(***************************************************************************)
C5_AsStated ==
    piped # NotRun /\ HasDurationPrefix(input) /\ ~IsDuration(input)
        => piped.tag = "Ok" /\ piped.rest # <<>>

(***************************************************************************)
(* C5: go_duration enforces full consumption as the top-level parse does:  *)
(* it gives Ok only for an input that is a duration as a whole, with no    *)
(* input remaining, and an input that is a valid duration followed by      *)
(* other content is an error ("1s xyz" is the terminal                     *)
(* UnknownUnit("s xyz")).                                                  *)
(***************************************************************************)
C5_NomFullConsumption ==
    /\ piped # NotRun /\ piped.tag = "Ok" => piped.rest = <<>> /\ IsDuration(input)
    /\ piped # NotRun /\ HasDurationPrefix(input) /\ ~IsDuration(input) => piped.tag # "Ok"
    /\ piped # NotRun /\ input = <<"1", "s", " ", "x", "y", "z">>
        => piped = Failure([kind |-> "UnknownUnit", text |-> <<"s", " ", "x", "y", "z">>])

\* go_duration has refused a duration followed by other content
C5_Witness ==
    /\ piped.tag = "Error"
    /\ HasDurationPrefix(input)
    /\ RefReading(input).segs # <<>>
    /\ RefReading(input).stop = "number"

IsSignChar(c) == c \in {"-", "+"}

(***************************************************************************)
(* C6: a sign is accepted at position 0 only, and at most one; '-' negates *)
(* the sum of all segments, '+' or no sign leaves it positive ("-2us" is   *)
(* -2000, "-0s" is 0).  A '+' or '-' after a segment is no sign: it is     *)
(* part of the unit candidate before it and the parse fails with           *)
(* UnknownUnit containing it ("-1m-30s" and "1m-30s" give                  *)
(* UnknownUnit("m-"), "1m+30s" gives UnknownUnit("m+")).                   *)
(***************************************************************************)
C6_Sign ==
    /\ result # NotRun /\ result.tag = "Ok" =>
        /\ \A p \in 2..Len(input) : ~IsSignChar(input[p])
        /\ result.val.neg = (input[1] = "-" /\ result.val.mag # <<>>)
        /\ result.val.mag = RefComputed(input)
    /\ result # NotRun
         /\ (\E p \in 2..Len(input) : IsSignChar(input[p]) /\ IsDuration(SubSeq(input, 1, p - 1)))
        => /\ result.tag = "Err"
           /\ result.err.kind = "UnknownUnit"
           /\ \E q \in 1..Len(result.err.text) : IsSignChar(result.err.text[q])
    /\ result # NotRun /\ input = <<"-", "2", "u", "s">>
        => result = [tag |-> "Ok", val |-> [neg |-> TRUE, mag |-> Big(2000)]]
    /\ result # NotRun /\ input = <<"-", "0", "s">>
        => result = [tag |-> "Ok", val |-> [neg |-> FALSE, mag |-> <<>>]]
    /\ result # NotRun /\ input \in {<<"-", "1", "m", "-", "3", "0", "s">>, <<"1", "m", "-", "3", "0", "s">>}
        => result = ParsedErr([kind |-> "UnknownUnit", text |-> <<"m", "-">>])
    /\ result # NotRun /\ input = <<"1", "m", "+", "3", "0", "s">>
        => result = ParsedErr([kind |-> "UnknownUnit", text |-> <<"m", "+">>])

\* a '-' after the segment of a signed input has been refused as part of the unit
C6_Witness ==
    /\ input = <<"-", "1", "m", "-", "3", "0", "s">>
    /\ result = ParsedErr(UnknownUnit(<<"m", "-">>))

(***************************************************************************)
(* C7 as stated: the magnitude parsed from an in-range input is the sum    *)
(* over its segments of integer part x unit plus fraction x unit truncated *)
(* toward zero to whole nanoseconds.                                       *)
(***************************************************************************)
C7_AsStated ==
    result # NotRun /\ result.tag = "Ok" => result.val.mag = RefTotal(input)

(***************************************************************************)
(* C7: the magnitude parsed from an in-range input is the sum over its     *)
(* segments, in any order, units repeated or mixed, of integer part x unit *)
(* plus the fraction's contribution, truncated toward zero per segment     *)
(* before the sum.  For a fraction of at most 15 digits the contribution   *)
(* is exactly fraction x unit truncated to whole nanoseconds; a longer     *)
(* fraction contributes what the f64 loop computes, within one nanosecond  *)
(* of it.  ".1ns0.9ns" is 0, "1ns9ns" is 10, "1h30m" is 5400e9, ".1us" is  *)
(* 100, "1.ns" is 1.                                                       *)
(***************************************************************************)
C7_Accumulation ==
    /\ result # NotRun /\ result.tag = "Ok" /\ RefLong(input) = {}
        => result.val.mag = RefTotal(input)
    /\ result # NotRun /\ result.tag = "Ok"
        => /\ Le(result.val.mag, Add(RefTotal(input), Big(Cardinality(RefLong(input)))))
           /\ Le(RefTotal(input), Add(result.val.mag, Big(Cardinality(RefLong(input)))))
    /\ result # NotRun /\ input = <<".", "1", "n", "s", "0", ".", "9", "n", "s">>
        => result = [tag |-> "Ok", val |-> [neg |-> FALSE, mag |-> <<>>]]
    /\ result # NotRun /\ input = <<"1", "n", "s", "9", "n", "s">>
        => result = [tag |-> "Ok", val |-> [neg |-> FALSE, mag |-> <<10>>]]
    /\ result # NotRun /\ input = <<"1", "h", "3", "0", "m">>
        => result = [tag |-> "Ok", val |-> [neg |-> FALSE, mag |-> Mul(Big(5400), Big(1000000000))]]
    /\ result # NotRun /\ input = <<".", "1", "u", "s">>
        => result = [tag |-> "Ok", val |-> [neg |-> FALSE, mag |-> <<100>>]]
    /\ result # NotRun /\ input = <<"1", ".", "n", "s">>
        => result = [tag |-> "Ok", val |-> [neg |-> FALSE, mag |-> <<1>>]]

\* two segments whose fractions would add up to a nanosecond have parsed to 0
C7_Witness ==
    /\ input = <<".", "1", "n", "s", "0", ".", "9", "n", "s">>
    /\ result.tag = "Ok"
    /\ result.val.mag = <<>>

(***************************************************************************)
(* The reference rendering, in exact decimal arithmetic.                   *)
(***************************************************************************)
RECURSIVE RefTrim(_)
RefTrim(s) == IF s # <<>> /\ s[Len(s)] = "0" THEN RefTrim(SubSeq(s, 1, Len(s) - 1)) ELSE s

RECURSIVE RefPad(_, _)
RefPad(s, k) == IF Len(s) >= k THEN s ELSE RefPad(<<"0">> \o s, k)

\* n / 10^k in the fewest decimal digits: no trailing zero, no point before nothing
RefDecimal(n, k) ==
    LET qr == DivMod(n, Pow(<<10>>, k))
    IN  DecDigits(qr[1]) \o
        (IF qr[2] = <<>> THEN <<>> ELSE <<".">> \o RefTrim(RefPad(DecDigits(qr[2]), k)))

RefHour == Mul(Big(3600), Big(1000000000))

RefMinute == Mul(Big(60), Big(1000000000))

RefMinutes(n) ==
    DecDigits(DivMod(n, RefMinute)[1]) \o <<"m">> \o RefDecimal(DivMod(n, RefMinute)[2], 9) \o <<"s">>

RefAbs(n) ==
    IF Le(RefHour, n) THEN DecDigits(DivMod(n, RefHour)[1]) \o <<"h">> \o RefMinutes(DivMod(n, RefHour)[2])
    ELSE IF Le(RefMinute, n) THEN RefMinutes(n)
    ELSE IF Le(Big(1000000000), n) THEN RefDecimal(n, 9) \o <<"s">>
    ELSE IF Le(Big(1000000), n) THEN RefDecimal(n, 6) \o <<"m", "s">>
    ELSE IF Le(Big(1000), n) THEN RefDecimal(n, 3) \o <<MICRO_SIGN, "s">>
    ELSE IF n # <<>> THEN DecDigits(n) \o <<"n", "s">>
    ELSE <<"0", "s">>

RefFormat(d) == (IF d.neg /\ d.mag # <<>> THEN <<"-">> ELSE <<>>) \o RefAbs(d.mag)

\* the digits of s after its '.', up to the unit
RefFracDigits(s) ==
    IF \E i \in 1..Len(s) : s[i] = "."
    THEN RefDigits(s, (CHOOSE i \in 1..Len(s) : s[i] = ".") + 1) - (CHOOSE i \in 1..Len(s) : s[i] = ".")
    ELSE 0

Parsed(s) ==
    IF from_str(s).tag = "Ok" THEN [tag |-> "Ok", val |-> from_str(s).val]
    ELSE [tag |-> "Err", err |-> [kind |-> "Custom", text |-> error_display(from_str(s).err)]]

InvalidDurationMessage == [kind |-> "Custom", text |-> <<"time: invalid duration">>]

(***************************************************************************)
(* C9 as stated: string-mode decode accepts a string token, decoded        *)
(* through the parser, or a signed 64-bit integer token, taken as raw      *)
(* nanoseconds; an unsigned token above i64::MAX is rejected with          *)
(* InvalidDuration.                                                        *)
(***************************************************************************)
C9_AsStated ==
    mode = "string" /\ decoded # NotRun =>
        /\ token.kind = "Str" => decoded = Parsed(token.str)
        /\ token.kind = "I64" => decoded = [tag |-> "Ok", val |-> [neg |-> token.neg, mag |-> token.n]]
        /\ token.kind = "U64" /\ Lt(Sub(Shl(<<1>>, 63), <<1>>), token.n)
            => decoded = [tag |-> "Err", err |-> InvalidDurationMessage]

(***************************************************************************)
(* C9: string-mode decode passes a string token through the parser.  An    *)
(* integer token is accepted only by a deserializer that dispatches on the *)
(* token it holds (serde_test): there a signed integer is taken as raw     *)
(* nanoseconds, an unsigned one too up to i64::MAX, and one above it is    *)
(* rejected with InvalidDuration's message.  A deserializer that honours   *)
(* the request for a string (serde_json) rejects every integer token with  *)
(* its own invalid-type error.                                             *)
(***************************************************************************)
C9_StringMode ==
    mode = "string" /\ decoded # NotRun =>
        /\ token.kind = "Str" => decoded = Parsed(token.str)
        /\ de = SerdeTest /\ token.kind = "I64"
            => decoded = [tag |-> "Ok", val |-> [neg |-> token.neg, mag |-> token.n]]
        /\ de = SerdeTest /\ token.kind = "U64" =>
            IF Lt(Sub(Shl(<<1>>, 63), <<1>>), token.n)
            THEN decoded = [tag |-> "Err", err |-> InvalidDurationMessage]
            ELSE decoded = [tag |-> "Ok", val |-> [neg |-> FALSE, mag |-> token.n]]
        /\ de = SerdeJson /\ token.kind # "Str"
            => decoded = [tag |-> "Err", err |-> [kind |-> "InvalidType", text |-> <<>>]]
        /\ token = StrToken(<<"1", "0", "z">>)
            => decoded.err.text = <<"time: unknown unit \"", "z", "\" in duration">>

\* u64::MAX has been refused in string mode by the token-dispatching deserializer
C9_Witness ==
    /\ mode = "string"
    /\ de = SerdeTest
    /\ token = U64Token(Sub(Shl(<<1>>, 64), <<1>>))
    /\ decoded = [tag |-> "Err", err |-> InvalidDurationMessage]

(***************************************************************************)
(* C10: nanoseconds-mode decode accepts only a signed 64-bit integer       *)
(* token: an integer n decodes to n nanoseconds and encodes in nanoseconds *)
(* mode to n again, and a string token, a well-formed duration such as     *)
(* "2s" included, is rejected and never reaches the parser.                *)
(***************************************************************************)
C10_NanosecondsMode ==
    mode = "nanoseconds" /\ decoded # NotRun =>
        /\ token.kind = "I64" =>
            /\ decoded = [tag |-> "Ok", val |-> [neg |-> token.neg, mag |-> token.n]]
            /\ encoded # NotRun => encoded = token
        /\ token.kind = "Str" => decoded.tag = "Err"

(***************************************************************************)
(* C11: parse_go_duration of lib.rs and go_duration of nom.rs return the   *)
(* same outcome for every input: on success the same nanosecond value and  *)
(* the same remaining input, on failure the same error (InvalidDuration,   *)
(* MissingUnit or UnknownUnit with the same text) with the same            *)
(* recoverable or terminal status, also at the positive range check, where *)
(* one compares with i64::MAX and the other converts with i64::try_from.   *)
(***************************************************************************)
C11_Equivalent ==
    /\ iresult # NotRun => iresult = go_duration(input)
    /\ piped # NotRun => piped = parse_go_duration(input)

\* go_duration has refused the first magnitude above i64::MAX, without a sign
C11_Witness ==
    /\ input = Numeral(Shl(<<1>>, 63), <<"n", "s">>)
    /\ piped = [tag |-> "Error", err |-> [kind |-> "InvalidDuration", text |-> <<>>]]

====
